---- MODULE Spec2Model ----
(***************************************************************************)
(* Model of tools/ooanalyzer/radare2/ooa2r2.py: the converter of an        *)
(* OOAnalyzer JSON document into a radare2 script.                         *)
(*                                                                         *)
(* Text is modelled as a sequence of pieces.  A piece is one code point of *)
(* an input string ("a", "_", ":", "U+00E9") or one literal of the source  *)
(* that the program never looks into ("ooa.", "0x", "ac").  A line of the  *)
(* output file is the sequence of its space-separated words; the write of  *)
(* a lone "\n" is the empty line <<>>.                                     *)
(***************************************************************************)
EXTENDS Integers, Sequences, FiniteSets, TLC

VARIABLES args, pc, err, created, outfile, printed, structs, st, name,
          method_list, vfts, vftable_list, entOff, entKept, structures, usages,
          items,
          ip_str, fmt_out

vars == <<args, pc, err, created, outfile, printed, structs, st, name,
          method_list, vfts, vftable_list, entOff, entKept, structures, usages,
          items,
          ip_str, fmt_out>>

(* ------------------------------ bounds --------------------------------- *)

MaxStructs == 2
MaxMethods == 2
MaxVftables == 2
MaxEntries == 3
MaxUsages == 2
\* the most items a document has in all its Structures, Methods, Vftables,
\* entries and Members lists
MaxItems == 5
MaxNameLen == 3

(* --------------------------- text helpers ------------------------------ *)

Min(a, b) == IF a < b THEN a ELSE b

\* the lists of at most n items of S
BSeq(S, n) == UNION {[1..k -> S] : k \in 0..n}

Range(s) == {s[i] : i \in 1..Len(s)}

\* x in s, for strings: s has x as a contiguous substring
Contains(s, x) ==
    \E i \in 0..(Len(s) - Len(x)) : SubSeq(s, i + 1, i + Len(x)) = x

\* s.split(sep) for a one-character separator
RECURSIVE Split(_, _)
Split(s, sep) ==
    IF \A i \in 1..Len(s) : s[i] # sep THEN <<s>>
    ELSE LET i == CHOOSE j \in 1..Len(s) : s[j] = sep /\ \A k \in 1..(j - 1) : s[k] # sep
         IN  <<SubSeq(s, 1, i - 1)>> \o Split(SubSeq(s, i + 1, Len(s)), sep)

(* ----------------------- str.isalnum, format_name ---------------------- *)

AsciiAlnum == {"a", "b", "e", "f", "g", "h", "i", "m", "r", "t", "v",
               "A", "B", "Z", "0", "1", "2", "4", "7", "8"}

\* code points outside ASCII for which str.isalnum() is true:
\* e-acute, ARABIC-INDIC DIGIT THREE, SUPERSCRIPT TWO
UnicodeAlnum == {"U+00E9", "U+0663", "U+00B2"}

isalnum(e) == e \in AsciiAlnum \cup UnicodeAlnum

FLAG_PREFIX == <<"ooa.">>

format_name(s) ==
    FLAG_PREFIX \o SelectSeq(s, LAMBDA e : isalnum(e) \/ e = "_")

(* --------------------------- JSON scalars ------------------------------ *)

\* A JSON scalar the program passes through str(): a string or a number,
\* held with its kind and its text.
JStr(s) == [k |-> "str", v |-> s]
JNum(s) == [k |-> "num", v |-> s]

str(x) == x.v

ABSENT == <<"<absent>">>

(* ------------------------------ dict ----------------------------------- *)

\* A dict is the sequence of its items in insertion order.
DictHas(d, key) == \E i \in 1..Len(d) : d[i].k = key

\* d[key] = val that never finds key in d
DictSet_Append(d, key, val) == Append(d, [k |-> key, v |-> val])

DictSet(d, key, val) ==
    IF DictHas(d, key)
    THEN [i \in 1..Len(d) |-> IF d[i].k = key THEN [k |-> key, v |-> val] ELSE d[i]]
    ELSE Append(d, [k |-> key, v |-> val])

(* --------------------------- input domains ----------------------------- *)

Names == {<<"A", ":", ":", "f">>}

\* st['DemangledName']: absent, empty or not empty
DemangledNames == {ABSENT, <<>>, <<"Z", ":", ":", "g">>}

MethodName == <<"f", ":">>
EntryName == <<"g", "~">>

\* a plain method's 'type'; the last two contain "virt"
MethodTypes == {<<"m", "e", "t", "h">>,
                <<"v", "i", "r", "t">>,
                <<"v", "i", "r", "t", "_", "a", "_", "b">>}

\* a virtual-table entry's 'type'
EntryTypes == {<<"m", "e", "t", "h">>, <<"a", "_", "b">>}

Offsets == {<<"8">>}

MethodEas == {JStr(<<"1">>), JNum(<<"1">>), JStr(<<"2">>)}
EntryEas == {JStr(<<"1">>), JStr(<<"2">>)}
VftableEas == {<<"7">>, <<"8">>}
Vfptrs == {<<"0">>}

MethodDomain == [ea : MethodEas, name : {MethodName}, type : MethodTypes]

\* offset = ABSENT: the entry has no 'offset' key
EntryDomain == [ea : EntryEas, name : {EntryName}, type : EntryTypes,
                offset : Offsets \cup {ABSENT}]

\* has_entries = FALSE: the table has no 'entries' key
VftableDomain(n) ==
    [ea : VftableEas, vfptr : Vfptrs,
     has_entries : {TRUE}, entries : BSeq(EntryDomain, n)]
    \cup [ea : VftableEas, vfptr : Vfptrs, has_entries : {FALSE}, entries : {<<>>}]

UsageDomain == [ea : MethodEas, class : Names]

(* ----------------------------- output ---------------------------------- *)

NL == <<>>
HEADER == <<<<"#header">>>>

IsOp(line, op) == Len(line) > 0 /\ line[1] = <<op>>

(* write_header *)
write_header(f) == Append(f, HEADER)

(* ooa2r2_export_class: the lines written, and whether the loop over   *)
(* method_list ran to its end (an IndexError ends it at that method).  *)
AcvLines(nm, vl) == [i \in 1..Len(vl) |-> <<<<"acv">>, nm, vl[i].k, vl[i].v>>]

VIRT == <<"v", "i", "r", "t">>

RECURSIVE AcmLines(_, _)
AcmLines(nm, ml) ==
    IF ml = <<>> THEN [lines |-> <<>>, ok |-> TRUE]
    ELSE LET met == ml[1].k
             temp == ml[1].v
             met_type == temp[2]
             parts == Split(met_type, "_")
         IN  IF Contains(met_type, VIRT)
             THEN IF Len(parts) < 3
                  THEN [lines |-> <<>>, ok |-> FALSE]
                  ELSE LET rest == AcmLines(nm, Tail(ml))
                       IN  [lines |-> <<<<<<"acm">>, nm, temp[1], met, parts[3]>>>> \o rest.lines,
                            ok |-> rest.ok]
             ELSE LET rest == AcmLines(nm, Tail(ml))
                  IN  [lines |-> <<<<<<"acm">>, nm, temp[1], met>>>> \o rest.lines,
                       ok |-> rest.ok]

\* ooa2r2_export_class with the two loops in the other order
ooa2r2_export_class_MethodsFirst(nm, ml, vl) ==
    LET acm == AcmLines(nm, ml)
    IN  [lines |-> <<NL, <<<<"ac">>, nm>>>> \o acm.lines
                   \o (IF acm.ok THEN AcvLines(nm, vl) ELSE <<>>),
         ok |-> acm.ok]

ooa2r2_export_class(nm, ml, vl) ==
    LET acm == AcmLines(nm, ml)
    IN  [lines |-> <<NL, <<<<"ac">>, nm>>>> \o AcvLines(nm, vl) \o acm.lines,
         ok |-> acm.ok]

(* ooa2r2_export_usage *)
ooa2r2_export_usage(use_info) ==
    <<NL>> \o [i \in 1..Len(use_info) |->
                 <<<<"CCu">>, <<"Member">>, <<"usage:">>, use_info[i].v, <<"@">> \o use_info[i].k>>]

(* --------------------- ooa2r2_set_classes helpers ---------------------- *)

Key(ea) == <<"0x">> \o str(ea)

\* lines 122-124
RECURSIVE MethodsLoop(_, _)
MethodsLoop(d, mets) ==
    IF mets = <<>> THEN d
    ELSE MethodsLoop(DictSet(d, Key(mets[1].ea),
                             <<format_name(str(JStr(mets[1].name))), str(JStr(mets[1].type))>>),
                     Tail(mets))

\* line 131 for one entry
VirtTag(ent) == <<"v", "i", "r", "t", "_">> \o str(JStr(ent.type \o <<"_">>)) \o ent.offset

\* lines 129-136: the loop over one table's entries; the KeyError of a
\* missing 'offset' leaves the loop, caught by the handler around it
\* the loop over one table's entries with the handler inside the loop: an
\* entry without offset is passed over and the loop goes on
RECURSIVE EntriesLoop_SkipEntry(_, _)
EntriesLoop_SkipEntry(d, ents) ==
    IF ents = <<>> THEN d
    ELSE IF ents[1].offset = ABSENT THEN EntriesLoop_SkipEntry(d, Tail(ents))
    ELSE EntriesLoop_SkipEntry(DictSet(d, Key(ents[1].ea),
                                       <<format_name(str(JStr(ents[1].name))), VirtTag(ents[1])>>),
                               Tail(ents))

RECURSIVE EntriesLoop(_, _)
EntriesLoop(d, ents) ==
    IF ents = <<>> THEN d
    ELSE IF ents[1].offset = ABSENT THEN d
    ELSE EntriesLoop(DictSet(d, Key(ents[1].ea),
                             <<format_name(str(JStr(ents[1].name))), VirtTag(ents[1])>>),
                     Tail(ents))

\* lines 139-140
\* the second loop leaving out the tables without 'entries'
RECURSIVE VftablesLoop_WithEntries(_, _)
VftablesLoop_WithEntries(d, virs) ==
    IF virs = <<>> THEN d
    ELSE VftablesLoop_WithEntries(
             IF virs[1].has_entries
             THEN DictSet(d, <<"0x">> \o virs[1].ea, virs[1].vfptr)
             ELSE d,
             Tail(virs))

RECURSIVE VftablesLoop(_, _)
VftablesLoop(d, virs) ==
    IF virs = <<>> THEN d
    ELSE VftablesLoop(DictSet(d, <<"0x">> \o virs[1].ea, virs[1].vfptr), Tail(virs))

\* the display name, lines 116-120; the lookup of a missing
\* 'DemangledName' raises KeyError
NameRaises(s) == args.is_demangled_class_names /\ s.DemangledName = ABSENT

DisplayName(s) ==
    IF args.is_demangled_class_names /\ Len(s.DemangledName) # 0
    THEN format_name(s.DemangledName)
    ELSE format_name(s.Name)

\* the entries of a table that come before its first entry without offset
RECURSIVE KeptPrefix(_)
KeptPrefix(ents) ==
    IF ents = <<>> \/ ents[1].offset = ABSENT THEN <<>>
    ELSE <<ents[1]>> \o KeptPrefix(Tail(ents))

(* ooa2r2_set_usage, lines 151-153 *)
RECURSIVE UsageLoop(_, _)
UsageLoop(d, us) ==
    IF us = <<>> THEN d
    ELSE UsageLoop(DictSet(d, Key(us[1].ea), format_name(us[1].class)), Tail(us))

\* "fmt" % e: the number of conversions of fmt against one argument
PercentOk(nconv) == nconv = 1

(* ------------------------------ state ---------------------------------- *)
(* args         the parsed command line (get_args)                         *)
(* pc           the position of the run; "done", "exit" (exit() was        *)
(*              called) and "crash" (uncaught exception) are final         *)
(* err          the uncaught exception of a crashed run                    *)
(* created      open(args.out_file, 'w') has succeeded                     *)
(* outfile      the writes to the output file, in order                    *)
(* printed      the messages printed, in order                             *)
(* structs      the items of inp_file['Structures'] visited so far, as     *)
(*              their Name and DemangledName                               *)
(* st           the structure of the current loop iteration: its Name and  *)
(*              DemangledName, the length of its Methods list and the keys *)
(*              ("0x" + address) of the methods in that list               *)
(* vfts         the items of st['Vftables'] visited so far; in place of    *)
(*              its entries, whether the item has the key 'entries'        *)
(* entOff       the entries of these tables that have an offset, each as   *)
(*              its key and its offset                                     *)
(* entKept      the keys of the entries that have an offset and no entry   *)
(*              without offset before them in their table                  *)
(* items        the number of Structures, Methods, Vftables and entries    *)
(*              items read so far                                          *)
(* structures   whether inp_file has the key 'Structures'                   *)
(* usages       what inp_file holds at ['Usages'][0]['Members']            *)
(* ip_str, fmt_out   argument and result of a call of format_name          *)

StructDomain(n) ==
    [Name : Names, DemangledName : DemangledNames,
     Methods : BSeq(MethodDomain, n)]

NoStruct == [Name |-> <<>>, DemangledName |-> ABSENT, nmethods |-> 0, keys |-> {}]

Args == [is_import : BOOLEAN, is_demangled_class_names : BOOLEAN]

InitRest ==
    /\ err = "none"
    /\ created = FALSE
    /\ outfile = <<>>
    /\ printed = <<>>
    /\ structs = <<>>
    /\ st = NoStruct
    /\ name = <<>>
    /\ method_list = <<>>
    /\ vfts = <<>>
    /\ vftable_list = <<>>
    /\ entOff = {}
    /\ entKept = {}
    /\ structures = "unread"
    /\ usages = "unread"
    /\ items = 0

Init ==
    /\ args \in Args
    /\ pc = "main"
    /\ ip_str = <<>>
    /\ fmt_out = <<>>
    /\ InitRest

(* main with the output file opened and the header written before the *)
(* input is parsed                                                    *)
Main_HeaderFirst ==
    /\ pc = "main"
    /\ \E r \in {"ok", "ValueError", "OSError"} :
         \/ /\ r = "ok"
            /\ pc' = "json_parse"
            /\ UNCHANGED <<printed, created, outfile>>
         \/ /\ r = "ValueError"
            /\ created' = TRUE
            /\ outfile' = write_header(<<>>)
            /\ printed' = Append(printed, "Invalid input json file")
            /\ pc' = "exit"
         \/ /\ r = "OSError"
            /\ printed' = Append(printed, "Error opening input file")
            /\ pc' = "exit"
            /\ UNCHANGED <<created, outfile>>
    /\ UNCHANGED <<args, err, structs, st, name, method_list,
                   vfts, vftable_list, entOff, entKept, structures, usages, items,
                   ip_str, fmt_out>>

(* main, lines 200-217: json.loads(open(args.json_file).read()) *)
Main ==
    /\ pc = "main"
    /\ \E r \in {"ok", "ValueError", "OSError"} :
         \/ /\ r = "ok"
            /\ pc' = "json_parse"
            /\ UNCHANGED printed
         \/ /\ r = "ValueError"
            /\ printed' = Append(printed, "Invalid input json file")
            /\ pc' = "exit"
         \/ /\ r = "OSError"
            /\ printed' = Append(printed, "Error opening input file")
            /\ pc' = "exit"
    /\ UNCHANGED <<args, err, created, outfile, structs, st, name, method_list,
                   vfts, vftable_list, entOff, entKept, structures, usages, items, ip_str, fmt_out>>

(* json_parse, lines 165-174: open the output file, write the header *)
OpenOutfile ==
    /\ pc = "json_parse"
    /\ \E ok \in BOOLEAN :
         IF ok
         THEN /\ created' = TRUE
              /\ outfile' = write_header(<<>>)
              /\ printed' = Append(printed, "[+] Starting conversion")
              /\ pc' = "structures"
         ELSE /\ printed' = Append(printed, "Error making the output file")
              /\ pc' = "exit"
              /\ UNCHANGED <<created, outfile>>
    /\ UNCHANGED <<args, err, structs, st, name, method_list,
                   vfts, vftable_list, entOff, entKept, structures, usages, items, ip_str, fmt_out>>

\* a KeyError reaching the handler of line 178 or 184: the message is
\* built with "..." % e from a format without conversion
DiagnosticStep(msg) ==
    IF PercentOk(0)
    THEN /\ printed' = Append(printed, msg)
         /\ UNCHANGED err
    ELSE /\ err' = "TypeError"
         /\ UNCHANGED printed

(* json_parse, lines 176-179: inp_file['Structures'] *)
StructuresLookup ==
    /\ pc = "structures"
    /\ \E has \in BOOLEAN :
         IF has
         THEN /\ structures' = "present"
              /\ pc' = "classes"
              /\ UNCHANGED <<printed, err>>
         ELSE /\ structures' = "absent"
              /\ DiagnosticStep("No Structures found! ")
              /\ pc' = IF PercentOk(0) THEN "usage" ELSE "crash"
    /\ UNCHANGED <<args, created, outfile, structs, st, name, method_list,
                   vfts, vftable_list, entOff, entKept, usages, items,
                   ip_str, fmt_out>>

(* ooa2r2_set_classes, lines 115-124: the next structure, its name and *)
(* its methods                                                         *)
BeginStruct ==
    /\ pc = "classes"
    /\ Len(structs) < MaxStructs
    /\ items + 1 <= MaxItems
    /\ \E s \in StructDomain(Min(MaxMethods, MaxItems - items - 1)) :
         /\ items' = items + 1 + Len(s.Methods)
         /\ st' = [Name |-> s.Name, DemangledName |-> s.DemangledName,
                   nmethods |-> Len(s.Methods),
                   keys |-> {Key(m.ea) : m \in Range(s.Methods)}]
         /\ structs' = Append(structs, [Name |-> s.Name, DemangledName |-> s.DemangledName])
         /\ IF NameRaises(s)
            THEN /\ DiagnosticStep("No Structures found! ")
                 /\ pc' = IF PercentOk(0) THEN "usage" ELSE "crash"
                 /\ UNCHANGED <<name, method_list>>
            ELSE /\ name' = DisplayName(s)
                 /\ method_list' = MethodsLoop(<<>>, s.Methods)
                 /\ pc' = "vftables"
                 /\ UNCHANGED <<printed, err>>
    /\ vfts' = <<>>
    /\ vftable_list' = <<>>
    /\ entOff' = {}
    /\ entKept' = {}
    /\ UNCHANGED <<args, created, outfile, structures, usages, ip_str, fmt_out>>

\* line 146 and what follows the call
ExportStep(vl) ==
    LET ex == ooa2r2_export_class(name, method_list, vl)
    IN  /\ vftable_list' = vl
        /\ outfile' = outfile \o ex.lines
        /\ pc' = IF ex.ok THEN "classes" ELSE "crash"
        /\ err' = IF ex.ok THEN err ELSE "IndexError"

(* lines 127-128, 141-146: st has no 'Vftables' *)
NoVftables ==
    /\ pc = "vftables"
    /\ ExportStep(<<>>)
    /\ UNCHANGED <<args, created, printed, structs, st, name, method_list,
                   vfts, entOff, entKept, structures, usages, items, ip_str, fmt_out>>

(* line 128: st has 'Vftables' *)
HasVftables ==
    /\ pc = "vftables"
    /\ pc' = "vft_loop"
    /\ UNCHANGED <<args, err, created, outfile, printed, structs, st, name,
                   method_list, vfts, vftable_list, entOff, entKept, structures,
                   usages, items, ip_str, fmt_out>>

(* lines 128-136: one iteration of the first loop over st['Vftables'] *)
VftIter ==
    /\ pc = "vft_loop"
    /\ Len(vfts) < MaxVftables
    /\ items + 1 <= MaxItems
    /\ \E vir \in VftableDomain(Min(MaxEntries, MaxItems - items - 1)) :
         /\ items' = items + 1 + Len(vir.entries)
         /\ vfts' = Append(vfts, [ea |-> vir.ea, vfptr |-> vir.vfptr,
                                   has_entries |-> vir.has_entries])
         /\ method_list' = IF vir.has_entries
                           THEN EntriesLoop(method_list, vir.entries)
                           ELSE method_list
         /\ entOff' = entOff \cup {<<Key(e.ea), e.offset>> :
                                       e \in {x \in Range(vir.entries) : x.offset # ABSENT}}
         /\ entKept' = entKept \cup {Key(e.ea) : e \in Range(KeptPrefix(vir.entries))}
    /\ UNCHANGED <<args, pc, err, created, outfile, printed, structs, st, name,
                   vftable_list, structures, usages, ip_str, fmt_out>>

(* lines 139-146: the second loop over st['Vftables'], then the export *)
EndVftables ==
    /\ pc = "vft_loop"
    /\ ExportStep(VftablesLoop(<<>>, vfts))
    /\ UNCHANGED <<args, created, printed, structs, st, name, method_list,
                   vfts, entOff, entKept, structures, usages, items, ip_str, fmt_out>>

(* line 115: the loop over the structures is over and ooa2r2_set_classes *)
(* returns; its locals are gone                                          *)
EndClasses ==
    /\ pc = "classes"
    /\ pc' = "usage"
    /\ st' = NoStruct
    /\ name' = <<>>
    /\ method_list' = <<>>
    /\ vfts' = <<>>
    /\ vftable_list' = <<>>
    /\ entOff' = {}
    /\ entKept' = {}
    /\ UNCHANGED <<args, err, created, outfile, printed, structs, structures,
                   usages, items, ip_str, fmt_out>>

Completion(p) == p \o <<"[+] Conversion done.", "[!] Execute: r2 -i">>

(* json_parse, lines 181-189 with -liu *)
LeaveUsage ==
    /\ pc = "usage"
    /\ ~args.is_import
    /\ printed' = Completion(printed)
    /\ pc' = "done"
    /\ UNCHANGED <<args, err, created, outfile, structs, st, name, method_list,
                   vfts, vftable_list, entOff, entKept, structures, usages, items, ip_str, fmt_out>>

(* json_parse, lines 181-189 without -liu *)
ImportUsage ==
    /\ pc = "usage"
    /\ args.is_import
    /\ \E shape \in {"no_Usages", "empty_Usages", "no_Members", "Members"} :
         /\ usages' = shape
         /\ \/ /\ shape \in {"no_Usages", "no_Members"}
               /\ DiagnosticStep("No Usage info found! ")
               /\ IF PercentOk(0)
                  THEN /\ printed' = Completion(Append(printed, "No Usage info found! "))
                       /\ pc' = "done"
                  ELSE pc' = "crash"
               /\ UNCHANGED outfile
            \/ /\ shape = "empty_Usages"
               /\ err' = "IndexError"
               /\ pc' = "crash"
               /\ UNCHANGED <<outfile, printed>>
            \/ /\ shape = "Members"
               /\ \E members \in BSeq(UsageDomain, Min(MaxUsages, MaxItems - items)) :
                    outfile' = outfile \o ooa2r2_export_usage(UsageLoop(<<>>, members))
               /\ printed' = Completion(printed)
               /\ pc' = "done"
               /\ UNCHANGED err
    /\ UNCHANGED <<args, created, structs, st, name, method_list,
                   vfts, vftable_list, entOff, entKept, structures, items, ip_str, fmt_out>>

Next ==
    \/ Main
    \/ OpenOutfile
    \/ StructuresLookup
    \/ BeginStruct
    \/ NoVftables
    \/ HasVftables
    \/ VftIter
    \/ EndVftables
    \/ EndClasses
    \/ LeaveUsage
    \/ ImportUsage

Spec == Init /\ [][Next]_vars

(* --------------------- format_name on its own -------------------------- *)

NameChars == {"a", "Z", "7", "_", ":", " ", "U+00E9", "U+0663"}

InitFmt ==
    /\ args = [is_import |-> TRUE, is_demangled_class_names |-> FALSE]
    /\ pc = "fmt"
    /\ ip_str \in BSeq(NameChars, MaxNameLen)
    /\ fmt_out = <<>>
    /\ InitRest

(* a call format_name(ip_str) *)
FormatName ==
    /\ pc = "fmt"
    /\ fmt_out' = format_name(ip_str)
    /\ pc' = "fmt_done"
    /\ UNCHANGED <<args, err, created, outfile, printed, structs, st, name,
                   method_list, vfts, vftable_list, entOff, entKept, structures,
                   usages, items, ip_str>>

NextFmt == FormatName

SpecFmt == InitFmt /\ [][NextFmt]_vars

(* ------------------------ reading the output --------------------------- *)

NLIdx == {i \in 1..Len(outfile) : outfile[i] = NL}
NumNL == Cardinality(NLIdx)
NthNL(j) == CHOOSE i \in NLIdx : Cardinality({k \in NLIdx : k <= i}) = j

\* the lines after the j-th "\n" write, up to the next one
BlockOf(j) ==
    SubSeq(outfile, NthNL(j) + 1,
           IF j < NumNL THEN NthNL(j + 1) - 1 ELSE Len(outfile))

Count(block, op) == Cardinality({i \in 1..Len(block) : IsOp(block[i], op)})

AcmFor(block, key) == {i \in 1..Len(block) : IsOp(block[i], "acm") /\ block[i][4] = key}
AcvFor(block, key) == {i \in 1..Len(block) : IsOp(block[i], "acv") /\ block[i][3] = key}

\* the class name the specification gives a structure
ExpectedName(h) ==
    IF args.is_demangled_class_names /\ h.DemangledName # ABSENT /\ h.DemangledName # <<>>
    THEN format_name(h.DemangledName)
    ELSE format_name(h.Name)

\* ooa2r2_export_class has returned for the current structure st
AfterExport == pc = "classes" /\ structs # <<>>
\* ooa2r2_export_class has raised for the current structure st
ExportCrashed == pc = "crash" /\ err = "IndexError" /\ usages = "unread"
\* the block of the current structure
Block == BlockOf(Len(structs))

EntKeys == {p[1] : p \in entOff}

(* ------------------------------- C1 ------------------------------------ *)

\* C1: a document without 'Structures' does not crash the run: the header
\* is written, no 'ac', 'acv' or 'acm' line is, the absence is reported
\* and the run goes on to the usage step and the completion message.
C1_NoStructuresContinues ==
    structures = "absent" =>
        /\ pc \in {"usage", "done"}
        /\ \E i \in 1..Len(printed) : printed[i] = "No Structures found! "
        /\ outfile[1] = HEADER
        /\ \A i \in 1..Len(outfile) : ~(\E op \in {"ac", "acv", "acm"} : IsOp(outfile[i], op))

(* ------------------------------- C2 ------------------------------------ *)

\* C2: without -liu, a document without 'Usages', or whose first usage
\* group has no 'Members', gets no 'CCu' line and a diagnostic, and the run
\* reaches the completion message.
C2_NoUsagesContinues ==
    usages \in {"no_Usages", "no_Members"} =>
        /\ pc = "done"
        /\ \E i \in 1..Len(printed) : printed[i] = "No Usage info found! "
        /\ \E i \in 1..Len(printed) : printed[i] = "[+] Conversion done."
        /\ \A i \in 1..Len(outfile) : ~IsOp(outfile[i], "CCu")

(* ------------------------------- C3 ------------------------------------ *)

ParseErrorReported == \E i \in 1..Len(printed) : printed[i] = "Invalid input json file"

C4_OneLinePerMethod ==
    (AfterExport /\ vfts = <<>>) =>
        /\ Count(Block, "ac") = 1
        /\ Count(Block, "acm") = st.nmethods
        /\ Count(Block, "acv") = 0

\* C4: a structure with no virtual table gets one 'ac' line, no 'acv'
\* line and at most one 'acm' line for each distinct address of its
\* Methods list, and exactly one for each when its export runs to the end.
C4_OneLinePerAddress ==
    ((AfterExport \/ ExportCrashed) /\ vfts = <<>>) =>
        /\ Count(Block, "ac") = 1
        /\ Count(Block, "acv") = 0
        /\ \A i \in 1..Len(Block) : IsOp(Block[i], "acm") => Block[i][4] \in st.keys
        /\ \A k \in st.keys : Cardinality(AcmFor(Block, k)) <= 1
        /\ AfterExport => \A k \in st.keys : Cardinality(AcmFor(Block, k)) = 1
        /\ ExportCrashed => Count(Block, "acm") < Cardinality(st.keys)

C4_Witness ==
    /\ AfterExport
    /\ vfts = <<>>
    /\ st.nmethods = 2
    /\ Cardinality(st.keys) = 1
    /\ Count(Block, "acm") = 1

(* ------------------------------- C5 ------------------------------------ *)

\* C5: an address both in Methods and in a virtual-table entry with offset
\* gets exactly one 'acm' line, with the entry's sanitized name and the
\* entry's offset as suffix; and only addresses of virtual-table entries
\* get a suffix.
C5_VirtualEntryWins ==
    AfterExport =>
        /\ \A k \in st.keys \cap EntKeys :
             /\ Cardinality(AcmFor(Block, k)) = 1
             /\ \A i \in AcmFor(Block, k) :
                  /\ Len(Block[i]) = 5
                  /\ Block[i][3] = format_name(EntryName)
                  /\ <<k, Block[i][5]>> \in entOff
        /\ \A i \in 1..Len(Block) :
             (IsOp(Block[i], "acm") /\ Len(Block[i]) = 5) => Block[i][4] \in EntKeys

(* ------------------------------- C6 ------------------------------------ *)

\* C6: every structure gets its block, and the class name of the block is
\* the sanitized DemangledName if -dcn is given and DemangledName is not
\* empty, and the sanitized Name in every other case, that of an absent
\* DemangledName included.
C6_ClassName ==
    (structs # <<>> /\ pc \in {"classes", "crash"}) =>
        /\ NumNL = Len(structs)
        /\ Block[1] = <<<<"ac">>, ExpectedName(st)>>

(* ------------------------------- C7 ------------------------------------ *)

\* format_name as specified: the prefix, then the characters of
\* [A-Za-z0-9_] of the input in their order
SpecifiedName(x) ==
    FLAG_PREFIX \o SelectSeq(x, LAMBDA e : e \in AsciiAlnum \/ e = "_")

\* C7: format_name returns the prefix followed by the characters of the
\* input that are in [A-Za-z0-9_], in their order, and nothing else.
C7_AsciiOnly ==
    pc = "fmt_done" =>
        /\ fmt_out = SpecifiedName(ip_str)
        /\ \A i \in 2..Len(fmt_out) : fmt_out[i] \in AsciiAlnum \cup {"_"}

(* ------------------------------- C8 ------------------------------------ *)

\* C8: when a virtual table of a structure has no 'entries', every virtual
\* table of the structure, that one included, still has its 'acv' line,
\* and the entries of the other tables still have their virtual 'acm'
\* lines.
C8_TableWithoutEntries ==
    (AfterExport /\ \E t \in 1..Len(vfts) : ~vfts[t].has_entries) =>
        /\ \A t \in 1..Len(vfts) :
             Cardinality(AcvFor(Block, <<"0x">> \o vfts[t].ea)) = 1
        /\ \A i \in 1..Len(Block) :
             IsOp(Block[i], "acv") => \E t \in 1..Len(vfts) : Block[i][3] = <<"0x">> \o vfts[t].ea
        /\ \A k \in entKept :
             /\ Cardinality(AcmFor(Block, k)) = 1
             /\ \A i \in AcmFor(Block, k) :
                  Len(Block[i]) = 5 /\ Block[i][3] = format_name(EntryName)

C8_Witness ==
    /\ AfterExport
    /\ Len(vfts) = 2
    /\ \E t \in 1..2 : ~vfts[t].has_entries /\ vfts[3 - t].has_entries
    /\ vfts[1].ea # vfts[2].ea
    /\ entKept # {}
    /\ Count(Block, "acv") = 2

(* ------------------------------- C9 ------------------------------------ *)

\* C9 as stated: an entry without 'offset' is dropped alone: every entry
\* that has an offset, before or after it, still has its virtual 'acm'
\* line.
C9_OnlyThatEntryDropped ==
    AfterExport =>
        \A k \in EntKeys :
            \E i \in AcmFor(Block, k) :
                Len(Block[i]) = 5 /\ Block[i][3] = format_name(EntryName)

\* C9: an entry without 'offset' ends the entries of its table without
\* error: the entries before it in that table and the entries of the other
\* tables up to their own first entry without offset have their virtual
\* 'acm' lines; it and the entries after it in its table yield no line.
C9_RestOfTableDropped ==
    AfterExport =>
        /\ \A k \in entKept :
             /\ Cardinality(AcmFor(Block, k)) = 1
             /\ \A i \in AcmFor(Block, k) :
                  Len(Block[i]) = 5 /\ Block[i][3] = format_name(EntryName)
        /\ \A i \in 1..Len(Block) :
             (IsOp(Block[i], "acm") /\ Block[i][4] \notin entKept) =>
                 /\ Block[i][4] \in st.keys
                 /\ Block[i][3] = format_name(MethodName)

\* an entry with an offset is kept, another one comes after an entry
\* without offset
C9_Witness ==
    /\ AfterExport
    /\ entKept # {}
    /\ EntKeys \ entKept # {}

(* ------------------------------- C10 ----------------------------------- *)

\* the lines of a structure's block: 'ac', then the 'acv', then the 'acm',
\* all naming class nm
BlockInOrder(block, nm) ==
    /\ Len(block) >= 1
    /\ block[1] = <<<<"ac">>, nm>>
    /\ \A i \in 2..Len(block) :
         /\ IsOp(block[i], "acv") \/ IsOp(block[i], "acm")
         /\ block[i][2] = nm
         /\ IsOp(block[i], "acv") => \A j \in 2..i : IsOp(block[j], "acv")

\* C10: a completed run has written the header, then one block for each
\* structure in input order, each an 'ac' line, its 'acv' lines, then its
\* 'acm' lines, all naming the class of the block, then, without -liu
\* only, the 'CCu' lines; with -liu no 'CCu' line is ever written.
C10_OutputOrder ==
    /\ ~args.is_import => \A i \in 1..Len(outfile) : ~IsOp(outfile[i], "CCu")
    /\ pc = "done" =>
        /\ outfile[1] = HEADER
        /\ \A i \in 2..Len(outfile) : outfile[i] # HEADER
        /\ Len(outfile) > 1 => outfile[2] = NL
        /\ NumNL = Len(structs) + (IF args.is_import THEN 1 ELSE 0)
        /\ \A j \in 1..Len(structs) : BlockInOrder(BlockOf(j), ExpectedName(structs[j]))
        /\ args.is_import =>
             \A i \in 1..Len(BlockOf(NumNL)) : IsOp(BlockOf(NumNL)[i], "CCu")

C10_Witness ==
    /\ pc = "done"
    /\ args.is_import
    /\ args.is_demangled_class_names
    /\ Len(structs) = 2
    /\ ExpectedName(structs[1]) # ExpectedName(structs[2])
    /\ Count(BlockOf(1), "acv") >= 1
    /\ Count(BlockOf(1), "acm") >= 1
    /\ Count(BlockOf(3), "CCu") >= 1

====
